---- MODULE Spec2Model ----
(***************************************************************************)
(* The Bitcoin scan/replay driver of chainhook-cli                         *)
(* (components/chainhook-cli/src/scan/bitcoin.rs):                         *)
(* scan_bitcoin_chain_with_predicate and execute_predicates_action, as a   *)
(* state machine with one action per step of the driver.  The evaluator,   *)
(* the action compiler, the RPC helpers and the ordinal cache live in      *)
(* other crates of the repository; they are modelled at their interface.   *)
(* PipelineSpec takes the catch-up of the ordinal cache in steps,          *)
(* CancellableSpec adds the caller's request for cancellation, StacksSpec  *)
(* drives the Stacks evaluator and action compiler as the tests of         *)
(* chainhook-sdk (chainhooks/tests/mod.rs) do.                             *)
(***************************************************************************)
EXTENDS Integers, Sequences, FiniteSets, TLC

\* Heights of the modelled chain are 0..MaxHeight.
MaxHeight == 2
\* Largest expire_after_occurrence a hook of the model carries.
MaxExpire == 1
\* Fan-out the driver passes to fetch_and_cache_blocks_in_hord_db.
FanOut == 8
\* Last height of the chain on which the catch-up pipeline is explored.
MaxBackfill == 9
\* Largest number of blocks of a Stacks chain event, and of entries of a
\* list of a hand-built trigger.
MaxBlocks == 2
\* Largest number of transaction events over the blocks of a chain event.
MaxEvents == 2

Heights == 0..MaxHeight

\* Option<T>: None is the empty sequence, Some(x) the one-element sequence.
None == <<>>
Some(x) == <<x>>
IsSome(o) == o # <<>>
Unwrap(o) == o[1]
Opt(S) == {None} \cup {Some(x) : x \in S}

Actions == {"Noop", "FileAppend", "HttpPost"}

\* A Bitcoin chainhook specification, reduced to the fields the driver and
\* the evaluator read.  ordinal: the predicate is Protocol(Ordinal(_)).
Hooks ==
    [ uuid : {"hook"},
      start_block : Opt(Heights),
      end_block : Opt(Heights),
      expire_after_occurrence : Opt(1..MaxExpire),
      ordinal : BOOLEAN,
      action : Actions,
      enabled : BOOLEAN ]

\* Data-model invariant of a specification: start_block <= end_block
\* whenever both are set.
ValidRange(h) ==
    (IsSome(h.start_block) /\ IsSome(h.end_block))
        => Unwrap(h.start_block) <= Unwrap(h.end_block)

\* The full specification handed to the driver: a map network -> hook, of
\* which only the entry of the configured network matters.
FullSpecifications ==
    { f \in [ network_present : BOOLEAN, spec : Hooks ] : ValidRange(f.spec) }

\* The ordinal cache (hord.sqlite): the compacted blocks are a contiguous
\* prefix of the chain, the inscriptions are indexed by the height of their
\* block.
Prefix(n) == {h \in Heights : h < n}
CacheStates ==
    { [ compacted |-> Prefix(n), inscriptions |-> i ] :
        n \in 0..(MaxHeight + 1), i \in SUBSET Heights } \cap
    { c \in [ compacted : SUBSET Heights, inscriptions : SUBSET Heights ] :
        c.inscriptions \subseteq c.compacted }
EmptyCache == [ compacted |-> {}, inscriptions |-> {} ]

VARIABLES
    predicate,          \* argument: the full specification
    hord_db,            \* the ordinal cache on disk
    pc,                 \* position of the driver
    result,             \* what the scan returned (kind "running" until then)
    predicate_spec,     \* Option: the projected specification
    start_block,
    end_block,
    inscriptions_cache, \* keys of the BTreeMap read from the cache
    is_predicate_evaluating_ordinals,
    hord_blocks_requires_update,
    rw_handles,         \* number of open read-write cache handles
    pipeline,           \* Option: arguments of the running catch-up
    blocks_scanned,
    actions_triggered,
    traversals,         \* heights whose traversals were inserted
    storage,            \* Storage: the updates applied to it, in order
    todo,               \* what the loop's iterator still yields
    cursor,
    block,              \* the block being processed
    hits,               \* triggers handed to execute_predicates_action
    executed,           \* actions_triggered local to execute_predicates_action
    sink,               \* occurrences the sinks received, in order
    failures,           \* triggers whose compilation or delivery failed
    summary,            \* Option: the summary line the driver reports
    log,                \* history of the I/O and evaluation steps
    stacks              \* the Stacks evaluator and action compiler at work

\* The variables of the Bitcoin scan.
scan_vars ==
    << predicate, hord_db, pc, result, predicate_spec, start_block, end_block,
       inscriptions_cache, is_predicate_evaluating_ordinals,
       hord_blocks_requires_update, rw_handles, pipeline, blocks_scanned,
       actions_triggered, traversals, storage, todo, cursor, block, hits,
       executed, sink, failures, summary, log >>

vars == << scan_vars, stacks >>

\* No Stacks evaluation is under way.
StacksIdle ==
    [ test |-> "none", phase |-> "idle", hook |-> None,
      blocks_to_rollback |-> <<>>, new_blocks |-> <<>>,
      triggered |-> <<>>, occurrence |-> None ]

Running == [ kind |-> "running", height |-> None ]
Ok == [ kind |-> "Ok", height |-> None ]
Err(kind, height) == [ kind |-> kind, height |-> height ]

Entry(op, h) == [ op |-> op, h |-> h ]

Init ==
    /\ predicate \in FullSpecifications
    /\ hord_db \in (IF predicate.spec.ordinal THEN CacheStates ELSE {EmptyCache})
    /\ pc = "new_client"
    /\ result = Running
    /\ predicate_spec = None
    /\ start_block = 0
    /\ end_block = 0
    /\ inscriptions_cache = {}
    /\ is_predicate_evaluating_ordinals = FALSE
    /\ hord_blocks_requires_update = FALSE
    /\ rw_handles = 0
    /\ pipeline = None
    /\ blocks_scanned = 0
    /\ actions_triggered = 0
    /\ traversals = {}
    /\ storage = <<>>
    /\ todo = <<>>
    /\ cursor = 0
    /\ block = None
    /\ hits = <<>>
    /\ executed = 0
    /\ sink = <<>>
    /\ failures = 0
    /\ summary = None
    /\ log = <<>>
    /\ stacks = StacksIdle


(***************************************************************************)
(* Collaborators outside scan/bitcoin.rs, at their interface.              *)
(***************************************************************************)

\* BitcoinChainhookFullSpecification::into_selected_network_specification:
\* the entry of the requested network, or NoSpecificationForNetwork.
IntoSelectedNetworkSpecification(full) ==
    IF full.network_present THEN Some(full.spec) ELSE None

\* hord::db read contract.
FindAllInscriptions(db) == db.inscriptions
FindCompactedBlockAtBlockHeight(h, db) ==
    IF h \in db.compacted THEN Some(h) ELSE None
FindLatestCompactedBlockKnown(db) ==
    IF db.compacted = {} THEN 0
    ELSE CHOOSE h \in db.compacted : \A g \in db.compacted : g <= h

\* Errors of the RPC helpers and of the standardisation: they carry the
\* offending height.
RpcFailure(h) == Err("RpcFailure", Some(h))
BlockMalformed(h) == Err("BlockMalformed", Some(h))

\* Per-block gating of the matcher: the height is within the hook's range.
InRange(hook, h) ==
    /\ (IsSome(hook.start_block) => Unwrap(hook.start_block) <= h)
    /\ (IsSome(hook.end_block) => h <= Unwrap(hook.end_block))

\* Whether a block holds a transaction that satisfies the hook's predicate.
\* An OrdinalsProtocol predicate matches a transaction that reveals or
\* transfers an inscription, which the augmentation marks on the block.
BlockMatches(hook, b) ==
    /\ InRange(hook, b.height)
    /\ IF hook.ordinal THEN b.reveals \/ b.transfers ELSE b.matching

\* evaluate_bitcoin_chainhooks_on_chain_event on ChainUpdatedWithBlocks
\* { new_blocks, confirmed_blocks: [] } and a list of hooks: one trigger per
\* enabled hook with a non-empty apply list, in hook order.  It takes the
\* hooks by shared reference and returns the triggers only.
TriggerOf(new_blocks, hook) ==
    LET apply == SelectSeq(new_blocks, LAMBDA b : BlockMatches(hook, b))
    IN  IF hook.enabled /\ apply # <<>>
        THEN << [ chainhook |-> hook.uuid,
                  action |-> hook.action,
                  apply |-> [ i \in 1..Len(apply) |-> apply[i].height ],
                  rollback |-> <<>> ] >>
        ELSE <<>>

RECURSIVE EvaluateBitcoinChainhooksOnChainEvent(_, _)
EvaluateBitcoinChainhooksOnChainEvent(new_blocks, hooks) ==
    IF hooks = <<>> THEN <<>>
    ELSE TriggerOf(new_blocks, Head(hooks))
            \o EvaluateBitcoinChainhooksOnChainEvent(new_blocks, Tail(hooks))

\* handle_bitcoin_hook_action, when it succeeds: the occurrence of a trigger.
HandleBitcoinHookAction(hit) ==
    [ kind |-> CASE hit.action = "Noop" -> "Data"
                 [] hit.action = "FileAppend" -> "File"
                 [] hit.action = "HttpPost" -> "Http",
      chainhook |-> hit.chainhook,
      apply |-> hit.apply,
      rollback |-> hit.rollback ]

(***************************************************************************)
(* Helpers of the driver.                                                  *)
(***************************************************************************)

\* `return Err(..)` and the `?` operator: the scan stops with that error.
Abort(e) ==
    /\ pc' = "failed"
    /\ result' = e

\* The iterator start_block..=end_block.
RangeInclusive(a, b) ==
    IF a <= b THEN [ i \in 1..(b - a + 1) |-> a + i - 1 ] ELSE <<>>

\* BTreeMap::into_iter: the keys in descending order (not what a BTreeMap does).
RECURSIVE IntoIter_Descending(_)
IntoIter_Descending(S) ==
    IF S = {} THEN <<>>
    ELSE LET m == CHOOSE x \in S : \A y \in S : y <= x
         IN  <<m>> \o IntoIter_Descending(S \ {m})

\* BTreeMap::into_iter: the keys in ascending order.
RECURSIVE IntoIter(_)
IntoIter(S) ==
    IF S = {} THEN <<>>
    ELSE LET m == CHOOSE x \in S : \A y \in S : x <= y
         IN  <<m>> \o IntoIter(S \ {m})


(***************************************************************************)
(* scan_bitcoin_chain_with_predicate: range and mode resolution.           *)
(***************************************************************************)

\* Client::new: building the RPC client issues no request but may fail.
NewClient ==
    /\ pc = "new_client"
    /\ \E built \in BOOLEAN :
          IF built
          THEN pc' = "project" /\ UNCHANGED result
          ELSE Abort(Err("BitcoinRpcError", None))
    /\ UNCHANGED << stacks, predicate, hord_db, predicate_spec, start_block, end_block,
                    inscriptions_cache, is_predicate_evaluating_ordinals,
                    hord_blocks_requires_update, rw_handles, pipeline,
                    blocks_scanned, actions_triggered, traversals, storage,
                    todo, cursor, block, hits, executed, sink, failures,
                    summary, log >>

\* Projection onto the configured network.
Project ==
    /\ pc = "project"
    /\ LET selected == IntoSelectedNetworkSpecification(predicate)
       IN  IF IsSome(selected)
           THEN /\ predicate_spec' = selected
                /\ pc' = "resolve_start"
                /\ UNCHANGED result
           ELSE /\ Abort(Err("SpecificationMissingForNetwork", None))
                /\ UNCHANGED predicate_spec
    /\ UNCHANGED << stacks, predicate, hord_db, start_block, end_block,
                    inscriptions_cache, is_predicate_evaluating_ordinals,
                    hord_blocks_requires_update, rw_handles, pipeline,
                    blocks_scanned, actions_triggered, traversals, storage,
                    todo, cursor, block, hits, executed, sink, failures,
                    summary, log >>

\* start_block taken as 0 when the specification has none (not the driver).
ResolveStart_Default ==
    /\ pc = "resolve_start"
    /\ start_block' = IF IsSome(Unwrap(predicate_spec).start_block)
                      THEN Unwrap(Unwrap(predicate_spec).start_block)
                      ELSE 0
    /\ pc' = "resolve_end"
    /\ UNCHANGED << stacks, predicate, hord_db, result, predicate_spec, end_block,
                    inscriptions_cache, is_predicate_evaluating_ordinals,
                    hord_blocks_requires_update, rw_handles, pipeline,
                    blocks_scanned, actions_triggered, traversals, storage,
                    todo, cursor, block, hits, executed, sink, failures,
                    summary, log >>

\* start_block is required in replay mode.
ResolveStart ==
    /\ pc = "resolve_start"
    /\ IF IsSome(Unwrap(predicate_spec).start_block)
       THEN /\ start_block' = Unwrap(Unwrap(predicate_spec).start_block)
            /\ pc' = "resolve_end"
            /\ UNCHANGED result
       ELSE /\ Abort(Err("StartBlockMissing", None))
            /\ UNCHANGED start_block
    /\ UNCHANGED << stacks, predicate, hord_db, predicate_spec, end_block,
                    inscriptions_cache, is_predicate_evaluating_ordinals,
                    hord_blocks_requires_update, rw_handles, pipeline,
                    blocks_scanned, actions_triggered, traversals, storage,
                    todo, cursor, block, hits, executed, sink, failures,
                    summary, log >>

\* The chain tip is read whether or not the specification has an end_block,
\* and is what bounds the scan (not the driver).
ResolveEnd_AlwaysTip ==
    /\ pc = "resolve_end"
    /\ \/ \E tip \in Heights :
             /\ log' = Append(log, Entry("get_blockchain_info", tip))
             /\ end_block' = tip
             /\ pc' = "detect_ordinals"
             /\ UNCHANGED result
       \/ /\ log' = Append(log, Entry("get_blockchain_info_failed", 0))
          /\ Abort(Err("ChainTipUnavailable", None))
          /\ UNCHANGED end_block
    /\ UNCHANGED << stacks, predicate, hord_db, predicate_spec, start_block,
                    inscriptions_cache, is_predicate_evaluating_ordinals,
                    hord_blocks_requires_update, rw_handles, pipeline,
                    blocks_scanned, actions_triggered, traversals, storage,
                    todo, cursor, block, hits, executed, sink, failures,
                    summary >>

\* end_block from the specification, else the node's chain tip
\* (get_blockchain_info, one request, result.blocks), which may fail.
ResolveEnd ==
    /\ pc = "resolve_end"
    /\ IF IsSome(Unwrap(predicate_spec).end_block)
       THEN /\ end_block' = Unwrap(Unwrap(predicate_spec).end_block)
            /\ pc' = "detect_ordinals"
            /\ UNCHANGED << result, log >>
       ELSE \/ \E tip \in Heights :
                  /\ log' = Append(log, Entry("get_blockchain_info", tip))
                  /\ end_block' = tip
                  /\ pc' = "detect_ordinals"
                  /\ UNCHANGED result
            \/ /\ log' = Append(log, Entry("get_blockchain_info_failed", 0))
               /\ Abort(Err("ChainTipUnavailable", None))
               /\ UNCHANGED end_block
    /\ UNCHANGED << stacks, predicate, hord_db, predicate_spec, start_block,
                    inscriptions_cache, is_predicate_evaluating_ordinals,
                    hord_blocks_requires_update, rw_handles, pipeline,
                    blocks_scanned, actions_triggered, traversals, storage,
                    todo, cursor, block, hits, executed, sink, failures,
                    summary >>

\* An ordinals predicate reads its hints from the ordinal cache; a cache
\* that cannot be opened is passed over here.
DetectOrdinals ==
    /\ pc = "detect_ordinals"
    /\ IF Unwrap(predicate_spec).ordinal
       THEN /\ is_predicate_evaluating_ordinals' = TRUE
            /\ \/ /\ log' = Append(log, Entry("open_readonly", 0))
                  /\ inscriptions_cache' = FindAllInscriptions(hord_db)
                  /\ hord_blocks_requires_update' =
                        ~IsSome(FindCompactedBlockAtBlockHeight(end_block, hord_db))
               \/ /\ log' = Append(log, Entry("open_readonly_failed", 0))
                  /\ UNCHANGED << inscriptions_cache, hord_blocks_requires_update >>
       ELSE UNCHANGED << is_predicate_evaluating_ordinals, inscriptions_cache,
                         hord_blocks_requires_update, log >>
    /\ pc' = "seed_check"
    /\ UNCHANGED << stacks, predicate, hord_db, result, predicate_spec, start_block,
                    end_block, rw_handles, pipeline, blocks_scanned,
                    actions_triggered, traversals, storage, todo, cursor,
                    block, hits, executed, sink, failures, summary >>

\* The call fetch_and_cache_blocks_in_hord_db(.., start_block, end_block, 8,
\* ..): the pipeline with its arguments, nothing downloaded yet.  next is the
\* next height to download, in_flight the downloads under way, downloaded
\* the blocks received and not yet committed, committed the heights written
\* to the cache, in the order of the writes.
FetchAndCacheBlocksInHordDb(start, end, fan_out) ==
    Some([ start |-> start, end |-> end, fan_out |-> fan_out,
           next |-> start, in_flight |-> {}, downloaded |-> {},
           committed |-> <<>> ])

\* The catch-up is considered only when no inscription was read and the
\* compacted block at end_block is missing.  It opens a read-only handle,
\* reads the latest compacted height and, when that is below end_block, opens
\* the read-write handle and starts the pipeline.
SeedCheck ==
    /\ pc = "seed_check"
    /\ IF is_predicate_evaluating_ordinals /\ inscriptions_cache = {}
            /\ hord_blocks_requires_update
       THEN \/ /\ log' = Append(log, Entry("open_readonly_failed", 0))
               /\ Abort(Err("CacheUnavailable", None))
               /\ UNCHANGED << rw_handles, pipeline >>
            \/ LET latest == FindLatestCompactedBlockKnown(hord_db)
               IN  IF latest < end_block
                   THEN \/ /\ log' = log \o << Entry("open_readonly", 0),
                                               Entry("open_readwrite", 0) >>
                           /\ rw_handles' = rw_handles + 1
                           /\ pipeline' = FetchAndCacheBlocksInHordDb(latest, end_block, FanOut)
                           /\ pc' = "catch_up"
                           /\ UNCHANGED result
                        \/ /\ log' = log \o << Entry("open_readonly", 0),
                                               Entry("open_readwrite_failed", 0) >>
                           /\ Abort(Err("CacheUnavailable", None))
                           /\ UNCHANGED << rw_handles, pipeline >>
                   ELSE /\ log' = Append(log, Entry("open_readonly", 0))
                        /\ pc' = "scan_setup"
                        /\ UNCHANGED << result, rw_handles, pipeline >>
       ELSE /\ pc' = "scan_setup"
            /\ UNCHANGED << result, rw_handles, pipeline, log >>
    /\ UNCHANGED << stacks, predicate, hord_db, predicate_spec, start_block, end_block,
                    inscriptions_cache, is_predicate_evaluating_ordinals,
                    hord_blocks_requires_update, blocks_scanned,
                    actions_triggered, traversals, storage, todo, cursor,
                    block, hits, executed, sink, failures, summary >>

\* rw_hord_db_conn is kept open after the block that declares it (not the
\* driver).
DropRwHordDbConn_Kept(handles) == handles

\* rw_hord_db_conn goes out of scope at the end of the block that declares
\* it, on the error path of `?` as well: the handle is closed.
DropRwHordDbConn(handles) == handles - 1

\* fetch_and_cache_blocks_in_hord_db(.., start, end, 8, ..).await?, then the
\* inscriptions are read again and the read-write handle goes out of scope.
\* On success the cache holds the compacted blocks up to end_block and the
\* inscriptions found in the blocks it added.
CatchUp ==
    /\ pc = "catch_up"
    /\ LET args == Unwrap(pipeline)
           added == {h \in Heights : h <= args.end} \ hord_db.compacted
       IN  \/ \E found \in SUBSET added :
                 /\ hord_db' = [ compacted |-> hord_db.compacted \cup added,
                                 inscriptions |-> hord_db.inscriptions \cup found ]
                 /\ inscriptions_cache' = FindAllInscriptions(hord_db')
                 /\ log' = Append(log, Entry("fetch_and_cache", args.start))
                 /\ pc' = "scan_setup"
                 /\ UNCHANGED result
           \/ /\ log' = Append(log, Entry("fetch_and_cache_failed", args.start))
              /\ Abort(Err("CatchUpFailed", None))
              /\ UNCHANGED << hord_db, inscriptions_cache >>
    /\ rw_handles' = DropRwHordDbConn(rw_handles)
    /\ pipeline' = None
    /\ UNCHANGED << stacks, predicate, predicate_spec, start_block, end_block,
                    is_predicate_evaluating_ordinals,
                    hord_blocks_requires_update, blocks_scanned,
                    actions_triggered, traversals, storage, todo, cursor,
                    block, hits, executed, sink, failures, summary >>

\* The failed opening of the read-only handle is passed over, as it is when
\* the ordinals predicate is detected, and the loop is entered (not the
\* driver).
ScanSetup_PassOver ==
    /\ pc = "scan_setup"
    /\ blocks_scanned' = 0
    /\ actions_triggered' = 0
    /\ traversals' = {}
    /\ IF is_predicate_evaluating_ordinals
       THEN /\ \/ log' = Append(log, Entry("open_readonly", 0))
               \/ log' = Append(log, Entry("open_readonly_failed", 0))
            /\ storage' = <<>>
            /\ todo' = IntoIter(inscriptions_cache)
            /\ pc' = "ordinal_loop"
            /\ UNCHANGED result
       ELSE /\ todo' = RangeInclusive(start_block, end_block)
            /\ pc' = "loop"
            /\ UNCHANGED << result, storage, log >>
    /\ UNCHANGED << stacks, predicate, hord_db, predicate_spec, start_block, end_block,
                    inscriptions_cache, is_predicate_evaluating_ordinals,
                    hord_blocks_requires_update, rw_handles, pipeline, cursor,
                    block, hits, executed, sink, failures, summary >>

\* The counters start at zero; in ordinal-aware mode a read-only handle and
\* a fresh Storage are created and the loop runs over the entries of
\* inscriptions_cache, otherwise over start_block..=end_block.
ScanSetup ==
    /\ pc = "scan_setup"
    /\ blocks_scanned' = 0
    /\ actions_triggered' = 0
    /\ traversals' = {}
    /\ IF is_predicate_evaluating_ordinals
       THEN \/ /\ log' = Append(log, Entry("open_readonly", 0))
               /\ storage' = <<>>
               /\ todo' = IntoIter(inscriptions_cache)
               /\ pc' = "ordinal_loop"
               /\ UNCHANGED result
            \/ /\ log' = Append(log, Entry("open_readonly_failed", 0))
               /\ Abort(Err("CacheUnavailable", None))
               /\ UNCHANGED << storage, todo >>
       ELSE /\ todo' = RangeInclusive(start_block, end_block)
            /\ pc' = "loop"
            /\ UNCHANGED << result, storage, log >>
    /\ UNCHANGED << stacks, predicate, hord_db, predicate_spec, start_block, end_block,
                    inscriptions_cache, is_predicate_evaluating_ordinals,
                    hord_blocks_requires_update, rw_handles, pipeline, cursor,
                    block, hits, executed, sink, failures, summary >>


(***************************************************************************)
(* scan_bitcoin_chain_with_predicate: the two evaluation loops.            *)
(***************************************************************************)

\* The error of retrieve_block_hash_with_retry is logged and the loop goes
\* on with the next height (not the driver).
HashFetchFailed_Skip(h) ==
    /\ pc' = IF is_predicate_evaluating_ordinals THEN "ordinal_loop" ELSE "loop"
    /\ UNCHANGED result

\* retrieve_block_hash_with_retry(..).await? : the error leaves the scan.
HashFetchFailed(h) == Abort(RpcFailure(h))

\* retrieve_full_block_breakdown_with_retry(..).await? : the error leaves
\* the scan.
BlockFetchFailed(h) == Abort(RpcFailure(h))

\* The error of standardize_bitcoin_block is passed over.
StandardizeFailed_Skip(h) ==
    /\ pc' = IF is_predicate_evaluating_ordinals THEN "ordinal_loop" ELSE "loop"
    /\ UNCHANGED result

\* standardize_bitcoin_block(..)? : the error leaves the scan.
StandardizeFailed(h) == Abort(BlockMalformed(h))

\* Ordinary mode, head of `for cursor in start_block..=end_block`: the next
\* height is counted and its block hash is fetched.
FetchHash ==
    /\ pc = "loop"
    /\ todo # <<>>
    /\ cursor' = Head(todo)
    /\ todo' = Tail(todo)
    /\ blocks_scanned' = blocks_scanned + 1
    /\ \/ /\ log' = Append(log, Entry("fetch_hash", cursor'))
          /\ pc' = "fetch_block"
          /\ UNCHANGED result
       \/ /\ log' = log \o << Entry("fetch_hash", cursor'),
                               Entry("rpc_exhausted", cursor') >>
          /\ HashFetchFailed(cursor')
    /\ UNCHANGED << stacks, predicate, hord_db, predicate_spec, start_block, end_block,
                    inscriptions_cache, is_predicate_evaluating_ordinals,
                    hord_blocks_requires_update, rw_handles, pipeline,
                    actions_triggered, traversals, storage, block, hits,
                    executed, sink, failures, summary >>

\* The traversals of an entry outside the interval are inserted before the
\* entry is passed over (not the driver: `continue` comes first).
OrdinalSkip_KeepTraversals ==
    /\ pc = "ordinal_loop"
    /\ todo # <<>>
    /\ Head(todo) < start_block \/ Head(todo) > end_block
    /\ todo' = Tail(todo)
    /\ traversals' = traversals \cup {Head(todo)}
    /\ UNCHANGED << stacks, predicate, hord_db, pc, result, predicate_spec, start_block,
                    end_block, inscriptions_cache,
                    is_predicate_evaluating_ordinals,
                    hord_blocks_requires_update, rw_handles, pipeline,
                    blocks_scanned, actions_triggered, storage,
                    cursor, block, hits, executed, sink, failures, summary,
                    log >>

\* Ordinal-aware mode, an entry of inscriptions_cache outside
\* [start_block, end_block]: `continue`.
OrdinalSkip ==
    /\ pc = "ordinal_loop"
    /\ todo # <<>>
    /\ Head(todo) < start_block \/ Head(todo) > end_block
    /\ todo' = Tail(todo)
    /\ UNCHANGED << stacks, predicate, hord_db, pc, result, predicate_spec, start_block,
                    end_block, inscriptions_cache,
                    is_predicate_evaluating_ordinals,
                    hord_blocks_requires_update, rw_handles, pipeline,
                    blocks_scanned, actions_triggered, traversals, storage,
                    cursor, block, hits, executed, sink, failures, summary,
                    log >>

\* Ordinal-aware mode, an entry inside the interval: its traversals are
\* inserted, the height is counted and its block hash is fetched.
OrdinalFetchHash ==
    /\ pc = "ordinal_loop"
    /\ todo # <<>>
    /\ ~(Head(todo) < start_block \/ Head(todo) > end_block)
    /\ cursor' = Head(todo)
    /\ todo' = Tail(todo)
    /\ traversals' = traversals \cup {cursor'}
    /\ blocks_scanned' = blocks_scanned + 1
    /\ \/ /\ log' = Append(log, Entry("fetch_hash", cursor'))
          /\ pc' = "fetch_block"
          /\ UNCHANGED result
       \/ /\ log' = log \o << Entry("fetch_hash", cursor'),
                               Entry("rpc_exhausted", cursor') >>
          /\ HashFetchFailed(cursor')
    /\ UNCHANGED << stacks, predicate, hord_db, predicate_spec, start_block, end_block,
                    inscriptions_cache, is_predicate_evaluating_ordinals,
                    hord_blocks_requires_update, rw_handles, pipeline,
                    actions_triggered, storage, block, hits, executed, sink,
                    failures, summary >>

\* The full block is fetched by its hash.  matching: whether the block holds
\* a transaction the hook's predicate is about.
FetchBlock ==
    /\ pc = "fetch_block"
    /\ \/ \E m \in BOOLEAN :
             /\ log' = Append(log, Entry("fetch_block", cursor))
             /\ block' = Some([ height |-> cursor, matching |-> m,
                                standardized |-> FALSE,
                                reveals |-> FALSE, transfers |-> FALSE ])
             /\ pc' = "standardize"
             /\ UNCHANGED result
       \/ /\ log' = log \o << Entry("fetch_block", cursor),
                               Entry("rpc_exhausted", cursor) >>
          /\ BlockFetchFailed(cursor)
          /\ UNCHANGED block
    /\ UNCHANGED << stacks, predicate, hord_db, predicate_spec, start_block, end_block,
                    inscriptions_cache, is_predicate_evaluating_ordinals,
                    hord_blocks_requires_update, rw_handles, pipeline,
                    blocks_scanned, actions_triggered, traversals, storage,
                    todo, cursor, hits, executed, sink, failures, summary >>

\* standardize_bitcoin_block: the breakdown becomes a block of the neutral
\* model, or is rejected.
Standardize ==
    /\ pc = "standardize"
    /\ \/ /\ log' = Append(log, Entry("standardize", cursor))
          /\ block' = Some([ Unwrap(block) EXCEPT !.standardized = TRUE ])
          /\ pc' = IF is_predicate_evaluating_ordinals
                   THEN "augment_reveal" ELSE "evaluate"
          /\ UNCHANGED result
       \/ /\ log' = log \o << Entry("standardize", cursor),
                               Entry("block_rejected", cursor) >>
          /\ StandardizeFailed(cursor)
          /\ UNCHANGED block
    /\ UNCHANGED << stacks, predicate, hord_db, predicate_spec, start_block, end_block,
                    inscriptions_cache, is_predicate_evaluating_ordinals,
                    hord_blocks_requires_update, rw_handles, pipeline,
                    blocks_scanned, actions_triggered, traversals, storage,
                    todo, cursor, hits, executed, sink, failures, summary >>

\* update_storage_and_augment_bitcoin_block_with_inscription_reveal_data:
\* the block is marked with the inscriptions its transactions reveal, as the
\* traversals name them, and the Storage records them.
AugmentReveal ==
    /\ pc = "augment_reveal"
    /\ LET b == Unwrap(block)
           r == b.matching /\ b.height \in traversals
       IN  /\ block' = Some([ b EXCEPT !.reveals = r ])
           /\ storage' = Append(storage, [ op |-> "reveal", h |-> b.height,
                                           inscribed |-> r ])
    /\ log' = Append(log, Entry("reveal", cursor))
    /\ pc' = "augment_transfer"
    /\ UNCHANGED << stacks, predicate, hord_db, result, predicate_spec, start_block,
                    end_block, inscriptions_cache,
                    is_predicate_evaluating_ordinals,
                    hord_blocks_requires_update, rw_handles, pipeline,
                    blocks_scanned, actions_triggered, traversals, todo,
                    cursor, hits, executed, sink, failures, summary >>

\* update_storage_and_augment_bitcoin_block_with_inscription_transfer_data:
\* the block is marked with the transfers of the inscriptions the Storage
\* tracks from earlier blocks.
AugmentTransfer ==
    /\ pc = "augment_transfer"
    /\ LET b == Unwrap(block)
           t == b.matching /\ \E i \in 1..Len(storage) :
                                 storage[i].inscribed /\ storage[i].h < b.height
       IN  /\ block' = Some([ b EXCEPT !.transfers = t ])
           /\ storage' = Append(storage, [ op |-> "transfer", h |-> b.height,
                                           inscribed |-> FALSE ])
    /\ log' = Append(log, Entry("transfer", cursor))
    /\ pc' = "evaluate"
    /\ UNCHANGED << stacks, predicate, hord_db, result, predicate_spec, start_block,
                    end_block, inscriptions_cache,
                    is_predicate_evaluating_ordinals,
                    hord_blocks_requires_update, rw_handles, pipeline,
                    blocks_scanned, actions_triggered, traversals, todo,
                    cursor, hits, executed, sink, failures, summary >>

\* The evaluation disables the hook it has triggered, so that the call
\* leaves a state behind (not the driver: the hook is lent by shared
\* reference).
Evaluate_Expiring ==
    /\ pc = "evaluate"
    /\ hits' = EvaluateBitcoinChainhooksOnChainEvent(<< Unwrap(block) >>,
                                                     << Unwrap(predicate_spec) >>)
    /\ predicate_spec' = IF hits' = <<>> THEN predicate_spec
                         ELSE Some([ Unwrap(predicate_spec) EXCEPT !.enabled = FALSE ])
    /\ log' = log \o << Entry("evaluate", cursor) >>
                  \o [ i \in 1..Len(hits') |-> Entry("trigger", cursor) ]
    /\ executed' = 0
    /\ pc' = "execute"
    /\ UNCHANGED << stacks, predicate, hord_db, result, start_block,
                    end_block, inscriptions_cache,
                    is_predicate_evaluating_ordinals,
                    hord_blocks_requires_update, rw_handles, pipeline,
                    blocks_scanned, actions_triggered, traversals, storage,
                    todo, cursor, block, sink, failures, summary >>

\* The event holds the block twice (not the driver: new_blocks is
\* vec![block]).
Evaluate_BlockTwice ==
    /\ pc = "evaluate"
    /\ hits' = EvaluateBitcoinChainhooksOnChainEvent(
                   << Unwrap(block), Unwrap(block) >>, << Unwrap(predicate_spec) >>)
    /\ log' = log \o << Entry("evaluate", cursor) >>
                  \o [ i \in 1..Len(hits') |-> Entry("trigger", cursor) ]
    /\ executed' = 0
    /\ pc' = "execute"
    /\ UNCHANGED << stacks, predicate, hord_db, result, predicate_spec, start_block,
                    end_block, inscriptions_cache,
                    is_predicate_evaluating_ordinals,
                    hord_blocks_requires_update, rw_handles, pipeline,
                    blocks_scanned, actions_triggered, traversals, storage,
                    todo, cursor, block, sink, failures, summary >>

\* The block is wrapped in ChainUpdatedWithBlocks { new_blocks: [block],
\* confirmed_blocks: [] } and evaluated against vec![&predicate_spec]; the
\* hits go to execute_predicates_action.
Evaluate ==
    /\ pc = "evaluate"
    /\ hits' = EvaluateBitcoinChainhooksOnChainEvent(<< Unwrap(block) >>,
                                                     << Unwrap(predicate_spec) >>)
    /\ log' = log \o << Entry("evaluate", cursor) >>
                  \o [ i \in 1..Len(hits') |-> Entry("trigger", cursor) ]
    /\ executed' = 0
    /\ pc' = "execute"
    /\ UNCHANGED << stacks, predicate, hord_db, result, predicate_spec, start_block,
                    end_block, inscriptions_cache,
                    is_predicate_evaluating_ordinals,
                    hord_blocks_requires_update, rw_handles, pipeline,
                    blocks_scanned, actions_triggered, traversals, storage,
                    todo, cursor, block, sink, failures, summary >>


(***************************************************************************)
(* execute_predicates_action and the end of the scan.                      *)
(***************************************************************************)

\* One turn of `for hit in hits.into_iter()`.  handle_bitcoin_hook_action
\* either fails, which is logged, or gives the occurrence: the local counter
\* is incremented, then an Http occurrence goes to send_request, a File
\* occurrence to file_append, and a Data occurrence reaches unreachable!().
\* send_request and file_append return nothing: whether the sink took the
\* occurrence is not known to the driver.
HandleHit ==
    /\ pc = "execute"
    /\ hits # <<>>
    /\ hits' = Tail(hits)
    /\ LET hit == Head(hits)
           occurrence == HandleBitcoinHookAction(hit)
       IN  \/ /\ log' = Append(log, Entry("compile_failed", cursor))
              /\ failures' = failures + 1
              /\ UNCHANGED << pc, result, executed, sink >>
           \/ /\ occurrence.kind \in {"Http", "File"}
              /\ executed' = executed + 1
              /\ log' = Append(log, Entry("dispatch", cursor))
              /\ \/ sink' = Append(sink, occurrence) /\ UNCHANGED failures
                 \/ failures' = failures + 1 /\ UNCHANGED sink
              /\ UNCHANGED << pc, result >>
           \/ /\ occurrence.kind = "Data"
              /\ executed' = executed + 1
              /\ pc' = "panicked"
              /\ result' = Err("Panic", None)
              /\ UNCHANGED << sink, failures, log >>
    /\ UNCHANGED << stacks, predicate, hord_db, predicate_spec, start_block, end_block,
                    inscriptions_cache, is_predicate_evaluating_ordinals,
                    hord_blocks_requires_update, rw_handles, pipeline,
                    blocks_scanned, actions_triggered, traversals, storage,
                    todo, cursor, block, summary >>

\* execute_predicates_action returns its counter, which the loop adds to
\* actions_triggered before it turns to the next height.
ExecuteReturn ==
    /\ pc = "execute"
    /\ hits = <<>>
    /\ actions_triggered' = actions_triggered + executed
    /\ log' = Append(log, Entry("executed", cursor))
    /\ pc' = IF is_predicate_evaluating_ordinals THEN "ordinal_loop" ELSE "loop"
    /\ UNCHANGED << stacks, predicate, hord_db, result, predicate_spec, start_block,
                    end_block, inscriptions_cache,
                    is_predicate_evaluating_ordinals,
                    hord_blocks_requires_update, rw_handles, pipeline,
                    blocks_scanned, traversals, storage, todo, cursor, block,
                    hits, executed, sink, failures, summary >>

\* The loop is exhausted: the summary "{blocks_scanned} blocks scanned,
\* {actions_triggered} actions triggered" is reported and the scan is Ok(()).
Finish ==
    /\ pc \in {"loop", "ordinal_loop"}
    /\ todo = <<>>
    /\ summary' = Some([ blocks_scanned |-> blocks_scanned,
                         actions_triggered |-> actions_triggered ])
    /\ result' = Ok
    /\ pc' = "done"
    /\ UNCHANGED << stacks, predicate, hord_db, predicate_spec, start_block, end_block,
                    inscriptions_cache, is_predicate_evaluating_ordinals,
                    hord_blocks_requires_update, rw_handles, pipeline,
                    blocks_scanned, actions_triggered, traversals, storage,
                    todo, cursor, block, hits, executed, sink, failures, log >>

Next ==
    \/ NewClient
    \/ Project
    \/ ResolveStart
    \/ ResolveEnd
    \/ DetectOrdinals
    \/ SeedCheck
    \/ CatchUp
    \/ ScanSetup
    \/ FetchHash
    \/ OrdinalSkip
    \/ OrdinalFetchHash
    \/ FetchBlock
    \/ Standardize
    \/ AugmentReveal
    \/ AugmentTransfer
    \/ Evaluate
    \/ HandleHit
    \/ ExecuteReturn
    \/ Finish

Spec == Init /\ [][Next]_vars


(***************************************************************************)
(* The catch-up in steps: fetch_and_cache_blocks_in_hord_db downloads the  *)
(* blocks of [start, end] with at most fan_out downloads under way and     *)
(* commits them to the cache one at a time, in height order.  PipelineSpec *)
(* starts where SeedCheck has opened the read-write handle, on a chain of  *)
(* heights 0..MaxBackfill, and ends where the driver reaches its loop.     *)
(***************************************************************************)

BackfillHeights == 0..MaxBackfill

PipelinePredicate ==
    [ network_present |-> TRUE,
      spec |-> [ uuid |-> "hook", start_block |-> Some(0), end_block |-> None,
                 expire_after_occurrence |-> None, ordinal |-> TRUE,
                 action |-> "HttpPost", enabled |-> TRUE ] ]

\* The states in which SeedCheck starts the pipeline: no inscription read,
\* the compacted blocks a prefix of the chain that ends below end_block.
PipelineInit ==
    /\ predicate = PipelinePredicate
    /\ hord_db \in { [ compacted |-> {h \in BackfillHeights : h < n},
                       inscriptions |-> {} ] : n \in 0..MaxBackfill }
    /\ pc = "catch_up"
    /\ result = Running
    /\ predicate_spec = Some(PipelinePredicate.spec)
    /\ start_block = 0
    /\ end_block = MaxBackfill
    /\ inscriptions_cache = {}
    /\ is_predicate_evaluating_ordinals = TRUE
    /\ hord_blocks_requires_update = TRUE
    /\ rw_handles = 1
    /\ pipeline = FetchAndCacheBlocksInHordDb(
                      FindLatestCompactedBlockKnown(hord_db), end_block, FanOut)
    /\ blocks_scanned = 0
    /\ actions_triggered = 0
    /\ traversals = {}
    /\ storage = <<>>
    /\ todo = <<>>
    /\ cursor = 0
    /\ block = None
    /\ hits = <<>>
    /\ executed = 0
    /\ sink = <<>>
    /\ failures = 0
    /\ summary = None
    /\ log = << Entry("get_blockchain_info", MaxBackfill),
                Entry("open_readonly", 0), Entry("open_readonly", 0),
                Entry("open_readwrite", 0) >>
    /\ stacks = StacksIdle

\* What the steps of the pipeline leave alone.
PipelineFrame ==
    UNCHANGED << stacks, predicate, predicate_spec, start_block, end_block,
                 is_predicate_evaluating_ordinals, hord_blocks_requires_update,
                 blocks_scanned, actions_triggered, traversals, storage, todo,
                 cursor, block, hits, executed, sink, failures, summary >>

\* The height the next commit writes.
NextCommit(p) == p.start + Len(p.committed)

\* The download of the next height starts when fewer than fan_out downloads
\* are under way.
StartDownload ==
    /\ pc = "catch_up"
    /\ LET p == Unwrap(pipeline)
       IN  /\ p.next <= p.end
           /\ Cardinality(p.in_flight) < p.fan_out
           /\ pipeline' = Some([ p EXCEPT !.next = p.next + 1,
                                          !.in_flight = p.in_flight \cup {p.next} ])
    /\ UNCHANGED << hord_db, pc, result, inscriptions_cache, rw_handles, log >>
    /\ PipelineFrame

\* A download under way completes; the downloads complete in any order.
CompleteDownload ==
    /\ pc = "catch_up"
    /\ LET p == Unwrap(pipeline)
       IN  \E h \in p.in_flight :
              pipeline' = Some([ p EXCEPT !.in_flight = p.in_flight \ {h},
                                          !.downloaded = p.downloaded \cup {h} ])
    /\ UNCHANGED << hord_db, pc, result, inscriptions_cache, rw_handles, log >>
    /\ PipelineFrame

\* Any downloaded block is committed, in the order of the completions (not
\* the pipeline).
CommitBlock_AsCompleted ==
    /\ pc = "catch_up"
    /\ LET p == Unwrap(pipeline)
       IN  \E h \in p.downloaded :
              /\ pipeline' = Some([ p EXCEPT !.downloaded = p.downloaded \ {h},
                                             !.committed = Append(p.committed, h) ])
              /\ hord_db' = [ hord_db EXCEPT !.compacted = hord_db.compacted \cup {h} ]
    /\ UNCHANGED << pc, result, inscriptions_cache, rw_handles, log >>
    /\ PipelineFrame

\* The downloaded block of the lowest height not yet committed is written to
\* the cache; a block of a greater height waits for it.
CommitBlock ==
    /\ pc = "catch_up"
    /\ LET p == Unwrap(pipeline)
           h == NextCommit(p)
       IN  /\ h \in p.downloaded
           /\ pipeline' = Some([ p EXCEPT !.downloaded = p.downloaded \ {h},
                                          !.committed = Append(p.committed, h) ])
           /\ hord_db' = [ hord_db EXCEPT !.compacted = hord_db.compacted \cup {h} ]
    /\ UNCHANGED << pc, result, inscriptions_cache, rw_handles, log >>
    /\ PipelineFrame

\* A download fails for good: the pipeline returns its error, the `?` of the
\* driver returns it and the read-write handle is closed.
DownloadFailed ==
    /\ pc = "catch_up"
    /\ Unwrap(pipeline).in_flight # {}
    /\ log' = Append(log, Entry("fetch_and_cache_failed", Unwrap(pipeline).start))
    /\ Abort(Err("CatchUpFailed", None))
    /\ rw_handles' = DropRwHordDbConn(rw_handles)
    /\ pipeline' = None
    /\ UNCHANGED << hord_db, inscriptions_cache >>
    /\ PipelineFrame

\* Every height of [start, end] is committed: the pipeline returns, the
\* driver reads the inscriptions again and the read-write handle is closed.
\* The inscriptions the pipeline indexed are those found in the blocks it
\* wrote.
CatchUpReturn ==
    /\ pc = "catch_up"
    /\ LET p == Unwrap(pipeline)
           written == {p.committed[i] : i \in 1..Len(p.committed)}
       IN  /\ NextCommit(p) > p.end
           /\ \E found \in {{}, written, {p.end}} :
                 hord_db' = [ hord_db EXCEPT !.inscriptions =
                                                hord_db.inscriptions \cup found ]
           /\ inscriptions_cache' = FindAllInscriptions(hord_db')
           /\ log' = Append(log, Entry("fetch_and_cache", p.start))
    /\ pc' = "scan_setup"
    /\ rw_handles' = DropRwHordDbConn(rw_handles)
    /\ pipeline' = None
    /\ UNCHANGED result
    /\ PipelineFrame

PipelineNext ==
    \/ StartDownload
    \/ CompleteDownload
    \/ CommitBlock
    \/ DownloadFailed
    \/ CatchUpReturn

PipelineSpec == PipelineInit /\ [][PipelineNext]_vars


(***************************************************************************)
(* Cancellation.  The caller of the scan asks for it at any moment before  *)
(* the scan has returned; the request is recorded in the history.  The     *)
(* driver takes no cancellation token and has no step that reads one.      *)
(***************************************************************************)

RequestCancellation ==
    /\ pc \notin {"done", "failed", "panicked"}
    /\ \A i \in 1..Len(log) : log[i].op # "cancel_requested"
    /\ log' = Append(log, Entry("cancel_requested", 0))
    /\ UNCHANGED << stacks, predicate, hord_db, pc, result, predicate_spec, start_block,
                    end_block, inscriptions_cache,
                    is_predicate_evaluating_ordinals,
                    hord_blocks_requires_update, rw_handles, pipeline,
                    blocks_scanned, actions_triggered, traversals, storage,
                    todo, cursor, block, hits, executed, sink, failures,
                    summary >>

CancellableNext == Next \/ RequestCancellation

CancellableSpec == Init /\ [][CancellableNext]_vars


(***************************************************************************)
(* The Stacks evaluator and action compiler (chainhooks/stacks), as the    *)
(* tests of chainhooks/tests/mod.rs drive them: test_stacks_predicates     *)
(* builds a chain event of blocks from lists of transaction events and     *)
(* evaluates one hook on it; test_stacks_hook_action_* build a trigger by  *)
(* hand and compile its action.                                            *)
(***************************************************************************)

Wildcard == "*"

\* Strings that are searched are sequences of characters.
Contains(value, pattern) ==
    \E i \in 0..(Len(value) - Len(pattern)) :
        SubSeq(value, i + 1, i + Len(pattern)) = pattern

FtActions == {"mint", "transfer", "burn"}

\* FTMintEvent, FTTransferEvent, FTBurnEvent on an asset.
FtEvents ==
    [ type : {"FT"}, action : FtActions,
      asset_class_identifier : {"asset-id", "wrong-id"} ]

\* SmartContractEvent: topic, emitting contract and serialised value; the
\* values are the empty string and "ab".
SmartContractEvents ==
    [ type : {"SmartContract"}, topic : {"print", "not-print"},
      contract_identifier : {"contract-id", "wrong-id"},
      value : {<<>>, <<"a", "b">>} ]

FtEventPredicates ==
    [ kind : {"FtEvent"},
      asset_identifier : {"asset-id", "wrong-id", Wildcard},
      actions : SUBSET FtActions ]

\* contains is "b", "ba" or the wildcard.
PrintEventPredicates ==
    [ kind : {"PrintEvent"},
      contract_identifier : {"contract-id", "wrong-id", Wildcard},
      contains : {<<"b">>, <<"b", "a">>, <<Wildcard>>} ]

\* The events a test gives to the blocks it builds for a predicate: those of
\* the predicate's family and one event of another family.
EventsFor(expected) ==
    IF expected.kind = "FtEvent"
    THEN FtEvents \cup
         { [ type |-> "SmartContract", topic |-> "print",
             contract_identifier |-> "contract-id", value |-> <<>> ] }
    ELSE SmartContractEvents \cup
         { [ type |-> "FT", action |-> "mint",
             asset_class_identifier |-> "asset-id" ] }

\* The events of a test in the order of the chain, each with the number of
\* its block: k events over `blocks` blocks.
PlacedEvents(alphabet, blocks, k) ==
    { placed \in [ 1..k -> alphabet \X (1..blocks) ] :
        \A a, b \in 1..k : a < b => placed[a][2] <= placed[b][2] }

\* blocks_with_events: one list of events per block, which may be empty.
BlocksWithEvents(placed, blocks) ==
    [ i \in 1..blocks |->
        LET here == SelectSeq(placed, LAMBDA x : x[2] = i)
        IN  [ n \in 1..Len(here) |-> here[n][1] ] ]

\* fixtures::build_stacks_testnet_block_from_smart_contract_event_data: a
\* block of one transaction that carries the events; the i-th block of an
\* event has the block identifier i.
BuildStacksTestnetBlock(i, events) ==
    [ block_identifier |-> [ index |-> i, hash |-> i ],
      transactions |-> << [ txid |-> i, events |-> events ] >> ]

\* The paths a FileAppend action may name; "./" is the one of
\* test_stacks_hook_action_file_append.
FilePaths == {"./", "./other"}

\* HookAction of a Stacks chainhook: Noop, FileAppend(FileHook { path }) or
\* HttpPost.
StacksHookActions ==
    { [ kind |-> "Noop" ], [ kind |-> "HttpPost" ] }
        \cup { [ kind |-> "FileAppend", path |-> p ] : p \in FilePaths }

\* The chainhook of the tests: no range, no expiry, enabled.
StacksChainhook(stacks_predicate, action) ==
    [ uuid |-> "", start_block |-> None, end_block |-> None,
      expire_after_occurrence |-> None, predicate |-> stacks_predicate,
      action |-> action, enabled |-> TRUE ]

\* An FT event matches whatever its asset (not the matcher).
FtEventMatches_AnyAsset(expected, e) ==
    /\ e.type = "FT"
    /\ e.action \in expected.actions

\* FtEvent{asset_identifier, actions}: an FT event whose action is in the
\* set and whose asset is the predicate's, or any asset for the wildcard.
FtEventMatches(expected, e) ==
    /\ e.type = "FT"
    /\ e.action \in expected.actions
    /\ \/ expected.asset_identifier = Wildcard
       \/ e.asset_class_identifier = expected.asset_identifier

\* A smart-contract event matches whatever its topic (not the matcher).
PrintEventMatches_AnyTopic(expected, e) ==
    /\ e.type = "SmartContract"
    /\ \/ expected.contract_identifier = Wildcard
       \/ e.contract_identifier = expected.contract_identifier
    /\ \/ expected.contains = <<Wildcard>>
       \/ Contains(e.value, expected.contains)

\* PrintEvent{contract_identifier, contains}: a print event of the contract
\* (any contract for the wildcard) whose value contains the string (any
\* value for the wildcard).
PrintEventMatches(expected, e) ==
    /\ e.type = "SmartContract"
    /\ e.topic = "print"
    /\ \/ expected.contract_identifier = Wildcard
       \/ e.contract_identifier = expected.contract_identifier
    /\ \/ expected.contains = <<Wildcard>>
       \/ Contains(e.value, expected.contains)

\* A transaction matches an event-based predicate when any of its events
\* does.
TransactionMatches(hook, tx) ==
    \E i \in 1..Len(tx.events) :
        IF hook.predicate.kind = "FtEvent"
        THEN FtEventMatches(hook.predicate, tx.events[i])
        ELSE PrintEventMatches(hook.predicate, tx.events[i])

\* The (transactions, block) entries of the blocks that hold a matching
\* transaction, in the order of the blocks.
RECURSIVE MatchingEntries(_, _)
MatchingEntries(hook, blocks) ==
    IF blocks = <<>> THEN <<>>
    ELSE LET b == Head(blocks)
             txs == SelectSeq(b.transactions,
                              LAMBDA tx : TransactionMatches(hook, tx))
         IN  (IF txs = <<>> THEN <<>>
              ELSE << [ transactions |-> txs, block |-> b.block_identifier ] >>)
             \o MatchingEntries(hook, Tail(blocks))

\* A trigger is emitted for every enabled hook, with empty lists when
\* nothing matched (not the evaluator).
StacksTriggerChainhook_EvenIfEmpty(hook, apply, rollback) ==
    IF hook.enabled
    THEN << [ chainhook |-> hook, apply |-> apply, rollback |-> rollback ] >>
    ELSE <<>>

\* One trigger for the hook unless both lists are empty.
StacksTriggerChainhook(hook, apply, rollback) ==
    IF hook.enabled /\ (apply # <<>> \/ rollback # <<>>)
    THEN << [ chainhook |-> hook, apply |-> apply, rollback |-> rollback ] >>
    ELSE <<>>

\* The blocks to roll back are not looked at (not the evaluator).
RECURSIVE EvaluateStacksChainhooksOnChainEvent_ApplyOnly(_, _, _)
EvaluateStacksChainhooksOnChainEvent_ApplyOnly(rollback_blocks, apply_blocks, hooks) ==
    IF hooks = <<>> THEN <<>>
    ELSE StacksTriggerChainhook(Head(hooks),
                                MatchingEntries(Head(hooks), apply_blocks), <<>>)
            \o EvaluateStacksChainhooksOnChainEvent_ApplyOnly(
                   rollback_blocks, apply_blocks, Tail(hooks))

\* evaluate_stacks_chainhooks_on_chain_event: for every hook, in hook order,
\* the blocks to roll back are walked into the rollback list and the blocks
\* to apply into the apply list.  ChainUpdatedWithBlocks { new_blocks,
\* confirmed_blocks: [] } has no block to roll back.
RECURSIVE EvaluateStacksChainhooksOnChainEvent(_, _, _)
EvaluateStacksChainhooksOnChainEvent(rollback_blocks, apply_blocks, hooks) ==
    IF hooks = <<>> THEN <<>>
    ELSE StacksTriggerChainhook(Head(hooks),
                                MatchingEntries(Head(hooks), apply_blocks),
                                MatchingEntries(Head(hooks), rollback_blocks))
            \o EvaluateStacksChainhooksOnChainEvent(
                   rollback_blocks, apply_blocks, Tail(hooks))

\* The rollback list of the payload is built from the apply list of the
\* trigger (not the action compiler).
StacksPayload_RollbackFromApply(trigger) ==
    LET Serialized(entries) ==
            [ i \in 1..Len(entries) |->
                [ block_identifier |-> entries[i].block,
                  transactions |-> entries[i].transactions ] ]
    IN  [ apply |-> Serialized(trigger.apply),
          rollback |-> Serialized(trigger.apply),
          chainhook |-> [ uuid |-> trigger.chainhook.uuid ] ]

\* The payload of an occurrence: the apply and rollback lists of the
\* trigger, each entry with the identifier of its block header and its
\* transactions, and the uuid of the chainhook.
StacksPayload(trigger) ==
    LET Serialized(entries) ==
            [ i \in 1..Len(entries) |->
                [ block_identifier |-> entries[i].block,
                  transactions |-> entries[i].transactions ] ]
    IN  [ apply |-> Serialized(trigger.apply),
          rollback |-> Serialized(trigger.rollback),
          chainhook |-> [ uuid |-> trigger.chainhook.uuid ] ]

\* Every file occurrence is written to "./", whatever path the hook names
\* (not the action compiler).
HandleStacksHookAction_FixedPath(trigger) ==
    LET payload == StacksPayload(trigger)
    IN  CASE trigger.chainhook.action.kind = "Noop" ->
                [ kind |-> "Data", data |-> payload ]
          [] trigger.chainhook.action.kind = "FileAppend" ->
                [ kind |-> "File", path |-> "./",
                  bytes |-> [ json |-> payload ] ]
          [] trigger.chainhook.action.kind = "HttpPost" ->
                [ kind |-> "Http",
                  request |-> [ method |-> "POST", body |-> [ json |-> payload ] ] ]

\* handle_stacks_hook_action: Noop gives Data(payload), FileAppend gives
\* File(path of the hook, bytes of the payload as JSON), HttpPost gives
\* Http(request whose body is the payload).
HandleStacksHookAction(trigger) ==
    LET payload == StacksPayload(trigger)
    IN  CASE trigger.chainhook.action.kind = "Noop" ->
                [ kind |-> "Data", data |-> payload ]
          [] trigger.chainhook.action.kind = "FileAppend" ->
                [ kind |-> "File", path |-> trigger.chainhook.action.path,
                  bytes |-> [ json |-> payload ] ]
          [] trigger.chainhook.action.kind = "HttpPost" ->
                [ kind |-> "Http",
                  request |-> [ method |-> "POST", body |-> [ json |-> payload ] ] ]

\* The blocks of the fixtures the action tests take their transactions and
\* their block headers from.
FixtureBlocks == {"contract_call", "contract_deployment"}

\* An entry of a hand-built trigger: the transactions of one fixture block
\* with the header of a fixture block, which may be another one.
TriggerEntries ==
    { [ transactions |-> << [ txid |-> t ] >>,
        block |-> [ index |-> 1, hash |-> h ] ] :
      t \in FixtureBlocks, h \in FixtureBlocks }

TriggerLists == UNION { [ 1..k -> TriggerEntries ] : k \in 0..MaxBlocks }

\* test_stacks_predicates before its call of the evaluator: an event of
\* blocks built from blocks_with_events and the chainhook of the predicate.
PredicateTest(expected, blocks_with_events) ==
    [ test |-> "predicates", phase |-> "event",
      hook |-> Some(StacksChainhook(expected, [ kind |-> "Noop" ])),
      blocks_to_rollback |-> <<>>,
      new_blocks |-> [ i \in 1..Len(blocks_with_events) |->
                          BuildStacksTestnetBlock(i, blocks_with_events[i]) ],
      triggered |-> <<>>, occurrence |-> None ]

\* test_stacks_hook_action_noop and test_stacks_hook_action_file_append
\* before their call of the action compiler: a trigger built by hand.
HookActionTest(action, apply, rollback) ==
    [ test |-> "hook_action", phase |-> "trigger",
      hook |-> Some(StacksChainhook([ kind |-> "Txid" ], action)),
      blocks_to_rollback |-> <<>>, new_blocks |-> <<>>,
      triggered |-> << [ chainhook |-> StacksChainhook([ kind |-> "Txid" ], action),
                         apply |-> apply, rollback |-> rollback ] >>,
      occurrence |-> None ]

\* A ChainUpdatedWithReorg event before the call of the evaluator: the first
\* `rolled` blocks built from blocks_with_events are blocks_to_rollback, the
\* others blocks_to_apply (kept in new_blocks); either side may be empty.
ReorgTest(expected, blocks_with_events, rolled) ==
    LET built == [ i \in 1..Len(blocks_with_events) |->
                     BuildStacksTestnetBlock(i, blocks_with_events[i]) ]
    IN  [ test |-> "reorg", phase |-> "event",
          hook |-> Some(StacksChainhook(expected, [ kind |-> "Noop" ])),
          blocks_to_rollback |-> SubSeq(built, 1, rolled),
          new_blocks |-> SubSeq(built, rolled + 1, Len(built)),
          triggered |-> <<>>, occurrence |-> None ]

StacksInit ==
    /\ predicate = PipelinePredicate
    /\ hord_db = EmptyCache
    /\ pc = "new_client"
    /\ result = Running
    /\ predicate_spec = None
    /\ start_block = 0
    /\ end_block = 0
    /\ inscriptions_cache = {}
    /\ is_predicate_evaluating_ordinals = FALSE
    /\ hord_blocks_requires_update = FALSE
    /\ rw_handles = 0
    /\ pipeline = None
    /\ blocks_scanned = 0
    /\ actions_triggered = 0
    /\ traversals = {}
    /\ storage = <<>>
    /\ todo = <<>>
    /\ cursor = 0
    /\ block = None
    /\ hits = <<>>
    /\ executed = 0
    /\ sink = <<>>
    /\ failures = 0
    /\ summary = None
    /\ log = <<>>
    /\ \/ \E expected \in FtEventPredicates \cup PrintEventPredicates,
             blocks \in 0..MaxBlocks, k \in 0..MaxEvents :
             \E placed \in PlacedEvents(EventsFor(expected), blocks, k) :
                \/ stacks = PredicateTest(expected, BlocksWithEvents(placed, blocks))
                \/ \E rolled \in 1..blocks :
                      stacks = ReorgTest(expected,
                                         BlocksWithEvents(placed, blocks), rolled)
       \/ \E action \in StacksHookActions,
             apply \in TriggerLists, rollback \in TriggerLists :
             stacks = HookActionTest(action, apply, rollback)

\* let (triggered, _blocks) =
\*     evaluate_stacks_chainhooks_on_chain_event(&event, vec![&chainhook], ..)
CallEvaluateStacksChainhooks ==
    /\ stacks.phase = "event"
    /\ stacks' = [ stacks EXCEPT
                     !.triggered = EvaluateStacksChainhooksOnChainEvent(
                                       stacks.blocks_to_rollback,
                                       stacks.new_blocks,
                                       << Unwrap(stacks.hook) >>),
                     !.phase = "evaluated" ]
    /\ UNCHANGED scan_vars

\* let occurrence = handle_stacks_hook_action(trigger, &proofs, &ctx).unwrap(),
\* on the trigger built by hand or on the first trigger of an evaluation.
CallHandleStacksHookAction ==
    /\ \/ stacks.phase = "trigger"
       \/ stacks.phase = "evaluated" /\ stacks.triggered # <<>>
    /\ stacks' = [ stacks EXCEPT
                     !.occurrence = Some(HandleStacksHookAction(stacks.triggered[1])),
                     !.phase = "occurrence" ]
    /\ UNCHANGED scan_vars

StacksNext ==
    \/ CallEvaluateStacksChainhooks
    \/ CallHandleStacksHookAction

StacksSpec == StacksInit /\ [][StacksNext]_vars


(***************************************************************************)
(* Properties of the driver.                                               *)
(***************************************************************************)

Indices == 1..Len(log)
At(op, h) == {i \in Indices : log[i].op = op /\ log[i].h = h}
Of(op) == {i \in Indices : log[i].op = op}
Once(op, h) == Cardinality(At(op, h)) = 1
Never(op, h) == At(op, h) = {}
FetchOps == {"fetch_hash", "fetch_block"}
ReturnedOk == pc = "done" /\ result = Ok
Interval == {h \in Heights : start_block <= h /\ h <= end_block}

\* C1: a hook with expire_after_occurrence = k gets at most k triggers, and
\* so at most k dispatched actions, over a whole scan.
C1_AtMostKTriggers ==
    IsSome(predicate.spec.expire_after_occurrence) =>
        /\ Cardinality(Of("trigger")) <= Unwrap(predicate.spec.expire_after_occurrence)
        /\ Cardinality(Of("dispatch")) <= Unwrap(predicate.spec.expire_after_occurrence)

\* The steps of one height in ordinary mode, each once and in the order
\* hash fetch, block fetch, standardisation, evaluation, dispatch.
OrdinarySteps(h) ==
    /\ Once("fetch_hash", h) /\ Once("fetch_block", h)
    /\ Once("standardize", h) /\ Once("evaluate", h) /\ Once("executed", h)
    /\ \A a \in At("fetch_hash", h), b \in At("fetch_block", h),
          c \in At("standardize", h), d \in At("evaluate", h),
          e \in At("executed", h) : a < b /\ b < c /\ c < d /\ d < e

NoStep(h) ==
    \A op \in {"fetch_hash", "fetch_block", "standardize", "evaluate", "executed"} :
        Never(op, h)

Ascending(op) ==
    \A i, j \in Of(op) : i < j => log[i].h < log[j].h

\* C2: an ordinary scan that returns Ok has processed every height of
\* [start_block, end_block], and no other, once, in the order of the steps
\* and in ascending order of the heights, and has scanned
\* end_block - start_block + 1 blocks.
C2_OrdinaryScan ==
    (ReturnedOk /\ ~is_predicate_evaluating_ordinals) =>
        /\ \A h \in Heights : IF h \in Interval THEN OrdinarySteps(h) ELSE NoStep(h)
        /\ Ascending("fetch_hash")
        /\ blocks_scanned = end_block - start_block + 1

\* The part of C2 that does not depend on the range being non-empty: the
\* count is the number of heights of the interval.
OrdinaryScanOfInterval ==
    (ReturnedOk /\ ~is_predicate_evaluating_ordinals) =>
        /\ \A h \in Heights : IF h \in Interval THEN OrdinarySteps(h) ELSE NoStep(h)
        /\ Ascending("fetch_hash")
        /\ blocks_scanned = Cardinality(Interval)

\* C3: an ordinal-aware scan that returns Ok has fetched, augmented and
\* evaluated every height of [start_block, end_block] exactly once.
C3_OrdinalScanCoversInterval ==
    (ReturnedOk /\ is_predicate_evaluating_ordinals) =>
        \A h \in Interval :
            /\ Once("fetch_hash", h) /\ Once("fetch_block", h)
            /\ Once("reveal", h) /\ Once("transfer", h) /\ Once("evaluate", h)

\* C4: the actions are dispatched in chain order: an action of height h is
\* dispatched before any fetch of a greater height, and never after an
\* action of a greater height; the sinks receive them in that order.
C4_ChainOrder ==
    /\ \A i \in Of("dispatch"), j \in Indices :
          (log[j].op \in FetchOps /\ log[j].h > log[i].h) => i < j
    /\ \A i, j \in Of("dispatch") : i < j => log[i].h <= log[j].h
    /\ \A i, j \in 1..Len(sink) : i < j => sink[i].apply[1] <= sink[j].apply[1]

C4_Witness ==
    /\ is_predicate_evaluating_ordinals
    /\ \E i, j \in Of("dispatch") : i < j /\ log[i].h < log[j].h
    /\ Len(sink) >= 2

C6_MalformedBlockAborts ==
    \A i \in Of("block_rejected") :
        /\ pc = "failed"
        /\ result = Err("BlockMalformed", Some(log[i].h))
        /\ i = Len(log)
        /\ Never("evaluate", log[i].h)
        /\ Never("reveal", log[i].h) /\ Never("transfer", log[i].h)
        /\ \A k \in 1..Len(storage) : storage[k].h # log[i].h
        /\ \A j \in Indices : log[j].op \in FetchOps => log[j].h <= log[i].h

C6_Witness ==
    /\ pc = "failed"
    /\ result.kind = "BlockMalformed"
    /\ is_predicate_evaluating_ordinals
    /\ storage # <<>>

\* C7: a trigger whose compilation or delivery fails does not stop the scan,
\* and the summary of a scan that returned Ok counts the failures.
C7_FailuresCounted ==
    (ReturnedOk /\ failures > 0) =>
        /\ "failures" \in DOMAIN Unwrap(summary)
        /\ Unwrap(summary).failures = failures

\* C8: every trigger is compiled and handed to its sink; the Data occurrence
\* of a Noop hook is handled without a panic and the scan goes on.
C8_NoopHandled ==
    /\ pc # "panicked"
    /\ (ReturnedOk /\ Unwrap(predicate_spec).action = "Noop") =>
          Cardinality(Of("trigger")) = actions_triggered + Cardinality(Of("compile_failed"))

ConfigurationError ==
    \/ ~predicate.network_present
    \/ ~IsSome(predicate.spec.start_block)

\* C9: when the specification lacks the configured network or a start_block
\* the scan ends in an error, and it never queries the node, opens the
\* ordinal cache or dispatches an action.
C9_ConfigurationErrorsFirst ==
    ConfigurationError =>
        /\ pc \in {"new_client", "project", "resolve_start", "failed"}
        /\ log = <<>>
        /\ sink = <<>>
        /\ rw_handles = 0
        /\ (pc = "failed" => result.kind \in {"BitcoinRpcError",
                                              "SpecificationMissingForNetwork",
                                              "StartBlockMissing"})

C9_Witness ==
    /\ pc = "failed"
    /\ result.kind = "StartBlockMissing"
    /\ predicate.spec.ordinal

\* C10: a scan whose resolved start_block is greater than its resolved
\* end_block does not return Ok: it stops with an error before the loop.
C10_ContradictoryRangeRejected ==
    (pc \notin {"new_client", "project", "resolve_start", "resolve_end"}
        /\ start_block > end_block)
        => /\ ~ReturnedOk
           /\ \A i \in Indices : log[i].op \notin FetchOps

\* The range of the scan is resolved: the driver is past both bounds.
RangeResolved ==
    /\ pc \notin {"new_client", "project", "resolve_start", "resolve_end"}
    /\ pc = "failed" => result.kind \notin {"BitcoinRpcError",
                                            "SpecificationMissingForNetwork",
                                            "StartBlockMissing",
                                            "ChainTipUnavailable"}

TipQueries == Of("get_blockchain_info") \cup Of("get_blockchain_info_failed")

\* C11: without an end_block in the specification the scan is bounded by the
\* chain tip the node reported when the range was resolved, read once and
\* before any fetch; with an end_block the node is never asked for the tip
\* and that value bounds the scan; a failed tip query stops the scan with an
\* error before any block is fetched.
C11_EndBlockResolution ==
    /\ Cardinality(TipQueries) <= 1
    /\ IsSome(predicate.spec.end_block) =>
          /\ TipQueries = {}
          /\ RangeResolved => end_block = Unwrap(predicate.spec.end_block)
    /\ (~IsSome(predicate.spec.end_block) /\ RangeResolved) =>
          /\ Cardinality(Of("get_blockchain_info")) = 1
          /\ \A i \in Of("get_blockchain_info") :
                /\ end_block = log[i].h
                /\ \A j \in Indices : log[j].op \in FetchOps => i < j
    /\ \A i \in Of("get_blockchain_info_failed") :
          /\ pc = "failed"
          /\ result = Err("ChainTipUnavailable", None)
          /\ i = Len(log)
          /\ \A j \in Indices : log[j].op \notin FetchOps

C11_Witness ==
    /\ ~IsSome(predicate.spec.end_block)
    /\ ReturnedOk
    /\ blocks_scanned >= 2
    /\ Cardinality(Of("get_blockchain_info")) = 1

\* C12: in ordinal-aware mode no block is evaluated while the compacted
\* block at end_block is missing from the cache: whenever it is missing the
\* catch-up has run before the first evaluation, whether or not inscriptions
\* were read from the cache.
C12_CatchUpBeforeEvaluation ==
    (is_predicate_evaluating_ordinals /\ Of("evaluate") # {}) =>
        IsSome(FindCompactedBlockAtBlockHeight(end_block, hord_db))

\* The ordinal cache cannot be opened read-only: the scan has tried, and no
\* attempt has succeeded.
CacheUnopenable ==
    /\ Of("open_readonly_failed") # {}
    /\ Of("open_readonly") = {}

CacheOps == {"open_readonly", "open_readonly_failed", "open_readwrite",
             "open_readwrite_failed", "fetch_and_cache", "fetch_and_cache_failed"}

\* C14: at most one read-write handle of the cache is open, and only while
\* the catch-up runs; it is opened at most once, in ordinal-aware mode, when
\* the compacted block at end_block was found missing; it is closed before
\* the first block of the evaluation loop is fetched; a scan that is not
\* ordinal-aware never opens the cache.
C14_WriteHandleOnlyDuringCatchUp ==
    /\ rw_handles \in {0, 1}
    /\ rw_handles = 1 <=> pc = "catch_up"
    /\ Cardinality(Of("open_readwrite")) <= 1
    /\ Of("open_readwrite") # {} =>
          /\ is_predicate_evaluating_ordinals
          /\ hord_blocks_requires_update
    /\ (\E j \in Indices : log[j].op \in FetchOps) => rw_handles = 0
    /\ \A i \in Of("open_readwrite"), j \in Indices :
          log[j].op \in FetchOps => i < j
    /\ ~predicate.spec.ordinal =>
          /\ rw_handles = 0
          /\ \A j \in Indices : log[j].op \notin CacheOps

C14_Witness ==
    /\ Of("open_readwrite") # {}
    /\ Of("fetch_and_cache") # {}
    /\ rw_handles = 0
    /\ \E j \in Indices : log[j].op = "fetch_block"

\* C15: while the catch-up runs, at most fan_out = 8 downloads are under
\* way, the commits are in strictly ascending height order, one height after
\* the other from the start of the pipeline, whatever the order of the
\* completions, and after every commit the compacted blocks of the cache
\* are a contiguous prefix of the chain.
C15_BoundedFanOutOrderedCommits ==
    /\ \E n \in 0..(MaxBackfill + 1) :
          hord_db.compacted = {h \in BackfillHeights : h < n}
    /\ IsSome(pipeline) =>
          LET p == Unwrap(pipeline)
          IN  /\ p.fan_out = FanOut
              /\ Cardinality(p.in_flight) <= p.fan_out
              /\ \A i, j \in 1..Len(p.committed) :
                    i < j => p.committed[i] < p.committed[j]
              /\ \A i \in 1..Len(p.committed) : p.committed[i] = p.start + i - 1
              /\ \A i \in 1..Len(p.committed) : p.committed[i] \in hord_db.compacted

\* The fan-out is exhausted while a block downloaded out of order waits for
\* the commit of a lower height that is still under way.
C15_Witness ==
    /\ IsSome(pipeline)
    /\ Cardinality(Unwrap(pipeline).in_flight) = FanOut
    /\ Unwrap(pipeline).committed # <<>>
    /\ NextCommit(Unwrap(pipeline)) \in Unwrap(pipeline).in_flight
    /\ \E h \in Unwrap(pipeline).downloaded : h > NextCommit(Unwrap(pipeline))

\* The fetches of block hashes started after the i-th entry of the history.
FetchesStartedAfter(i) == {j \in Of("fetch_hash") : j > i}

\* C16: once cancellation is requested the driver finishes at most the block
\* in progress and starts no later one: at most one block is started after
\* the request.
C16_CancellationHonoured ==
    \A i \in Of("cancel_requested") :
        Cardinality(FetchesStartedAfter(i)) <= 1


(***************************************************************************)
(* Properties of the Stacks evaluator and action compiler.                 *)
(***************************************************************************)

\* test_stacks_predicates has called the evaluator.
Evaluated ==
    /\ stacks.test = "predicates"
    /\ stacks.phase \in {"evaluated", "occurrence"}

BlockIndices == 1..Len(stacks.new_blocks)

\* The blocks of the event that hold a transaction matching the hook.
MatchingBlocks ==
    { i \in BlockIndices :
        \E t \in 1..Len(stacks.new_blocks[i].transactions) :
            TransactionMatches(Unwrap(stacks.hook),
                               stacks.new_blocks[i].transactions[t]) }

\* The blocks of the apply list of the first trigger.
AppliedBlocks ==
    { stacks.triggered[1].apply[k].block.index :
        k \in 1..Len(stacks.triggered[1].apply) }

\* C17: for one hook and an apply-only event the evaluator emits no trigger
\* when no block holds a matching transaction, and otherwise exactly one,
\* whose apply list has one entry per block that holds a matching
\* transaction, in the block order of the event, and whose rollback list is
\* empty.
C17_OneTriggerOverTheEvent ==
    Evaluated =>
        IF MatchingBlocks = {}
        THEN stacks.triggered = <<>>
        ELSE /\ Len(stacks.triggered) = 1
             /\ Len(stacks.triggered[1].apply) = Cardinality(MatchingBlocks)
             /\ AppliedBlocks = MatchingBlocks
             /\ \A j, k \in 1..Len(stacks.triggered[1].apply) :
                   j < k => stacks.triggered[1].apply[j].block.index
                               < stacks.triggered[1].apply[k].block.index
             /\ stacks.triggered[1].rollback = <<>>

C17_Witness ==
    /\ Evaluated
    /\ Len(stacks.new_blocks) = MaxBlocks
    /\ MatchingBlocks = {MaxBlocks}
    /\ Len(stacks.triggered) = 1

\* The events of the transactions of the i-th block of the event.
EventsOfBlock(i) ==
    UNION { { stacks.new_blocks[i].transactions[t].events[n] :
                n \in 1..Len(stacks.new_blocks[i].transactions[t].events) } :
            t \in 1..Len(stacks.new_blocks[i].transactions) }

\* The blocks with an FT event of a listed action on the predicate's asset,
\* or on any asset when the predicate has the wildcard.
FtBlocks ==
    LET expected == Unwrap(stacks.hook).predicate
    IN  { i \in BlockIndices :
            \E e \in EventsOfBlock(i) :
                /\ e.type = "FT"
                /\ e.action \in expected.actions
                /\ expected.asset_identifier \in {e.asset_class_identifier, "*"} }

PrintBlocks ==
    LET expected == Unwrap(stacks.hook).predicate
    IN  { i \in BlockIndices :
            \E e \in EventsOfBlock(i) :
                /\ e.type = "SmartContract"
                /\ e.topic = "print"
                /\ expected.contract_identifier \in {e.contract_identifier, "*"}
                /\ \/ expected.contains = <<"*">>
                   \/ \E a, b \in 0..Len(e.value) :
                         SubSeq(e.value, a + 1, b) = expected.contains }

\* C19: a PrintEvent predicate gets a trigger exactly when a transaction of
\* the event has a print event of the predicate's contract (any for "*")
\* whose value contains the predicate's string (any value, the empty one
\* too, for "*"), and the trigger applies exactly the blocks of such
\* transactions: an event of another topic, a wrong contract or a string
\* that is not contained gives 0 triggers.
C19_PrintEventMatch ==
    (Evaluated /\ Unwrap(stacks.hook).predicate.kind = "PrintEvent") =>
        IF PrintBlocks = {}
        THEN stacks.triggered = <<>>
        ELSE Len(stacks.triggered) = 1 /\ AppliedBlocks = PrintBlocks

\* Both wildcards over a print event with a value and a print event with the
\* empty value: one trigger that applies both blocks.
C19_Witness ==
    /\ Evaluated
    /\ Unwrap(stacks.hook).predicate =
          [ kind |-> "PrintEvent", contract_identifier |-> "*",
            contains |-> <<"*">> ]
    /\ Len(stacks.new_blocks) = 2
    /\ \E e \in EventsOfBlock(1) : e.type = "SmartContract" /\ e.topic = "print"
                                   /\ e.value = <<"a", "b">>
    /\ \E e \in EventsOfBlock(2) : e.type = "SmartContract" /\ e.topic = "print"
                                   /\ e.value = <<>>
    /\ Len(stacks.triggered) = 1
    /\ Len(stacks.triggered[1].apply) = 2

\* The payload an occurrence carries.
PayloadOf(occurrence) ==
    CASE occurrence.kind = "Data" -> occurrence.data
      [] occurrence.kind = "File" -> occurrence.bytes.json
      [] occurrence.kind = "Http" -> occurrence.request.body.json

\* The list of the payload has the length of the list of the trigger, and
\* its i-th entry the hash of the block header of the i-th entry.
SameBlocks(payload_list, trigger_list) ==
    /\ Len(payload_list) = Len(trigger_list)
    /\ \A i \in 1..Len(trigger_list) :
          payload_list[i].block_identifier.hash = trigger_list[i].block.hash

JustEvaluated ==
    /\ pc = "execute"
    /\ log # <<>>
    /\ log[Len(log)].op \in {"evaluate", "trigger"}

MatchingRollbackBlocks ==
    { i \in 1..Len(stacks.blocks_to_rollback) :
        \E t \in 1..Len(stacks.blocks_to_rollback[i].transactions) :
            TransactionMatches(Unwrap(stacks.hook),
                               stacks.blocks_to_rollback[i].transactions[t]) }

\* C22: for a reorg event with no block to apply and a block to roll back
\* that holds a matching transaction, the evaluator emits one trigger for
\* the hook, with an empty apply list and, in the rollback list, the
\* matching blocks in the order of the event.
C22_RollbackOnlyTrigger ==
    (/\ stacks.test = "reorg"
     /\ stacks.phase \in {"evaluated", "occurrence"}
     /\ stacks.new_blocks = <<>>
     /\ MatchingRollbackBlocks # {}) =>
        /\ Len(stacks.triggered) = 1
        /\ stacks.triggered[1].apply = <<>>
        /\ Len(stacks.triggered[1].rollback) = Cardinality(MatchingRollbackBlocks)
        /\ \A k \in 1..Len(stacks.triggered[1].rollback) :
              /\ stacks.triggered[1].rollback[k].block.index \in MatchingRollbackBlocks
              /\ stacks.triggered[1].rollback[k].block =
                    stacks.blocks_to_rollback[
                        stacks.triggered[1].rollback[k].block.index].block_identifier
        /\ \A j, k \in 1..Len(stacks.triggered[1].rollback) :
              j < k => stacks.triggered[1].rollback[j].block.index
                          < stacks.triggered[1].rollback[k].block.index

\* Two blocks rolled back, nothing applied, the second one matching.
C22_Witness ==
    /\ stacks.test = "reorg"
    /\ stacks.phase = "evaluated"
    /\ stacks.new_blocks = <<>>
    /\ Len(stacks.blocks_to_rollback) = MaxBlocks
    /\ MatchingRollbackBlocks = {MaxBlocks}
    /\ Len(stacks.triggered) = 1


\* The occurrence the action compiler gives for the same trigger when the
\* action of its hook is Noop: Data(payload).
DataOccurrenceOfTrigger ==
    HandleStacksHookAction(
        [ stacks.triggered[1] EXCEPT !.chainhook.action = [ kind |-> "Noop" ] ])

\* C23: the action compiler gives one occurrence whose kind is the one of
\* the hook's action: Data for Noop, File with the path of the hook and
\* the payload as JSON bytes for FileAppend, Http (a POST) for HttpPost; the
\* payload carried is the one the Data occurrence of the same trigger
\* carries.
C23_OccurrenceKindOfAction ==
    stacks.phase = "occurrence" =>
        LET action     == stacks.triggered[1].chainhook.action
            occurrence == Unwrap(stacks.occurrence)
            data       == DataOccurrenceOfTrigger.data
        IN  /\ Len(stacks.occurrence) = 1
            /\ DataOccurrenceOfTrigger.kind = "Data"
            /\ action.kind = "Noop" =>
                  /\ occurrence.kind = "Data"
                  /\ occurrence.data = data
            /\ action.kind = "FileAppend" =>
                  /\ occurrence.kind = "File"
                  /\ occurrence.path = action.path
                  /\ occurrence.bytes = [ json |-> data ]
            /\ action.kind = "HttpPost" =>
                  /\ occurrence.kind = "Http"
                  /\ occurrence.request.method = "POST"
                  /\ occurrence.request.body = [ json |-> data ]

\* A file occurrence of a hook whose path is not the one of the test, for a
\* trigger with a block to apply and a block to roll back.
C23_Witness ==
    /\ stacks.phase = "occurrence"
    /\ stacks.test = "hook_action"
    /\ stacks.triggered[1].chainhook.action.kind = "FileAppend"
    /\ stacks.triggered[1].chainhook.action.path # "./"
    /\ stacks.triggered[1].apply # <<>>
    /\ stacks.triggered[1].rollback # <<>>
    /\ Unwrap(stacks.occurrence).kind = "File"


\* C24: the triggers the driver holds and the occurrences it has dispatched
\* are those of single-block events over the projected hook: no rollback,
\* an apply list of one block, which is the block of the height in hand for
\* the triggers and a height whose dispatch is logged for the occurrences;
\* no height is evaluated twice or yields more than one trigger.
C24_SingleBlockSingleHook ==
    /\ Len(hits) <= 1
    /\ \A i \in 1..Len(hits) :
          /\ hits[i].rollback = <<>>
          /\ hits[i].apply = << cursor >>
          /\ hits[i].chainhook = Unwrap(predicate_spec).uuid
    /\ \A i \in 1..Len(sink) :
          /\ sink[i].rollback = <<>>
          /\ Len(sink[i].apply) = 1
          /\ sink[i].apply[1] <= cursor
          /\ At("dispatch", sink[i].apply[1]) # {}
          /\ sink[i].chainhook = Unwrap(predicate_spec).uuid
    /\ \A i, j \in 1..Len(sink) : sink[i].apply = sink[j].apply => i = j
    /\ \A h \in Heights :
          /\ Cardinality(At("evaluate", h)) <= 1
          /\ Cardinality(At("trigger", h)) <= 1

\* Two heights have each yielded a trigger that was dispatched.
C24_Witness ==
    /\ Len(sink) = 2
    /\ sink[1].apply # sink[2].apply
    /\ Cardinality(Of("trigger")) = 2


\* The heights of the entries the loaded inscriptions hold within
\* [start_block, h].
TraversalsUpTo(h) ==
    {g \in inscriptions_cache : start_block <= g /\ g <= h}

\* Ordinal-aware mode with a block in hand: from the insertion of its
\* traversals to the dispatch of its hits.
OrdinalBlockInHand ==
    /\ is_predicate_evaluating_ordinals
    /\ pc \in {"fetch_block", "standardize", "augment_reveal",
               "augment_transfer", "evaluate", "execute"}

\* C25: in ordinal-aware mode the Storage of the scan holds every
\* augmentation made since the setup, in ascending height order; for every
\* height the reveal augmentation comes before the transfer augmentation and
\* both before the evaluation; the traversals at hand for the block of
\* height h are those of the loaded inscriptions within [start_block, h], and
\* none is of a height outside [start_block, end_block].
C25_StorageThreadedInOrder ==
    is_predicate_evaluating_ordinals =>
        /\ traversals \subseteq TraversalsUpTo(end_block)
        /\ OrdinalBlockInHand => traversals = TraversalsUpTo(cursor)
        /\ Len(storage) = Cardinality(Of("reveal")) + Cardinality(Of("transfer"))
        /\ \A i, j \in 1..Len(storage) : i < j => storage[i].h <= storage[j].h
        /\ \A i \in 1..Len(storage) :
              storage[i].op = (IF i % 2 = 1 THEN "reveal" ELSE "transfer")
        /\ \A h \in Heights :
              /\ Cardinality(At("reveal", h)) <= 1
              /\ Cardinality(At("transfer", h)) <= 1
        /\ \A t \in Of("transfer") :
              \E r \in At("reveal", log[t].h) : r < t
        /\ \A e \in Of("evaluate") :
              \E r \in At("reveal", log[e].h), t \in At("transfer", log[e].h) :
                  r < t /\ t < e

\* The reveal augmentation of the last block of a scan that starts above
\* height 0, over inscriptions at every height: the Storage holds the
\* augmentations of the block before.
C25_Witness ==
    /\ is_predicate_evaluating_ordinals
    /\ pc = "augment_reveal"
    /\ start_block = 1
    /\ cursor = MaxHeight
    /\ inscriptions_cache = Heights
    /\ traversals = 1..MaxHeight
    /\ Len(storage) = 2 * (MaxHeight - 1)


\* C26: the pipeline of the catch-up works above the latest compacted block
\* the cache knows: it runs only when that block is below end_block, and no
\* height it downloads is one the cache already holds.
C26_PipelineStartsAboveLatest ==
    (pc = "catch_up" /\ IsSome(pipeline)) =>
        LET p == Unwrap(pipeline)
        IN  /\ p.start <= p.end
            /\ (p.in_flight \cup p.downloaded) \cap hord_db.compacted = {}


\* Each RPC call ends, with a value or with its last error, and each
\* dispatch returns: a step the driver can take is taken.
FairSpec == Spec /\ WF_vars(Next)

\* The scan has stopped: it has returned, or the thread has panicked.
Stopped == pc \in {"done", "failed", "panicked"}

\* scan_bitcoin_chain_with_predicate has returned Ok(()) or Err(message).
Returned ==
    \/ pc = "done" /\ result = Ok
    \/ pc = "failed" /\ result \notin {Running, Ok}

\* Every scan stops.
ScanStops == <>Stopped

\* No height is fetched twice, and nothing is fetched once the scan has
\* stopped.
NoHeightFetchedTwice ==
    \A h \in Heights :
        /\ Cardinality(At("fetch_hash", h)) <= 1
        /\ Cardinality(At("fetch_block", h)) <= 1
        /\ Cardinality(At("dispatch", h)) <= 1

\* C27: every scan terminates by returning: no height is fetched twice, no
\* failed block or failed dispatch is tried again, and a scan that can take
\* no further step has returned Ok or an error.
C27_ScanTerminates ==
    /\ NoHeightFetchedTwice
    /\ \A h \in Heights :
          (At("rpc_exhausted", h) # {} \/ At("block_rejected", h) # {}) =>
              /\ Stopped
              /\ \A i \in At("rpc_exhausted", h) \cup At("block_rejected", h) :
                    \A j \in Indices : j > i => log[j].op \notin FetchOps
    /\ (~ENABLED Next) => Returned

====
